---- MODULE Spec2Model ----
(***************************************************************************)
(* Model of src/index.js: the LimitOrderService class and the eight        *)
(* Express route handlers built on it.                                     *)
(*                                                                         *)
(* JavaScript values are tagged tuples, so that truthiness, defaulting     *)
(* and the numeric conversions behave as they do in the language:          *)
(*   <<"undefined">>, <<"null">>, <<"NaN">>, <<"number", n>>,              *)
(*   <<"string", s>>.                                                      *)
(* A string is a sequence of one-character strings where the program       *)
(* parses it (CHAIN_ID, amounts, addresses).  Strings the program never    *)
(* looks into (hashes, signatures, random hex) are tokens whose first      *)
(* element names their origin.                                             *)
(***************************************************************************)
EXTENDS Integers, Sequences, FiniteSets, TLC

----------------------------------------------------------------------------
(* Bounds of the model *)

\* seconds the clock can advance during a run
MaxTime == 1
\* distinct values Math.random() can produce
MaxRand == 2
\* hex digits after "0x" in an address of the model (40 on a real chain)
AddrHexLen == 2
\* largest allowance, amount and number of helper runs in the approval model
MaxAmount == 3
MaxRuns == 2

\* the concurrent requests the model follows
Requests == {"r1", "r2"}

----------------------------------------------------------------------------
(* JavaScript values *)

Undefined == <<"undefined">>
Null == <<"null">>
NaN == <<"NaN">>
Num(n) == <<"number", n>>
Str(s) == <<"string", s>>

IsNum(v) == Len(v) = 2 /\ v[1] = "number"
IsStr(v) == Len(v) = 2 /\ v[1] = "string"

\* !v
Falsy(v) == v \in {Undefined, Null, NaN, Num(0), Str(<<>>)}

Digits == {"0", "1", "2", "3", "4", "5", "6", "7", "8", "9"}

DigitVal(c) ==
    CASE c = "0" -> 0 [] c = "1" -> 1 [] c = "2" -> 2 [] c = "3" -> 3
      [] c = "4" -> 4 [] c = "5" -> 5 [] c = "6" -> 6 [] c = "7" -> 7
      [] c = "8" -> 8 [] c = "9" -> 9

\* a sequence of characters: does it start with "0" ... "9" at position i
IsDigitAt(s, i) == i <= Len(s) /\ s[i] \in Digits

RECURSIVE DigitPrefixLen(_, _)
DigitPrefixLen(s, i) ==
    IF IsDigitAt(s, i) THEN DigitPrefixLen(s, i + 1) ELSE i - 1

RECURSIVE DecimalValue(_, _)
\* the value of the first n characters of s, all of them digits
DecimalValue(s, n) ==
    IF n = 0 THEN 0 ELSE 10 * DecimalValue(s, n - 1) + DigitVal(s[n])

AllDigits(s) == \A i \in 1..Len(s) : s[i] \in Digits

\* parseInt(v): the longest leading run of digits, NaN when there is none
\* (undefined is first turned into the string "undefined")
ParseInt(v) ==
    IF ~IsStr(v) THEN NaN
    ELSE IF ~IsDigitAt(v[2], 1) THEN NaN
    ELSE Num(DecimalValue(v[2], DigitPrefixLen(v[2], 1)))

\* a || b
OrElse(a, b) == IF Falsy(a) THEN b ELSE a

\* the numeric conversion of the operand of  x * 60
ToNumber(v) ==
    IF IsNum(v) THEN v
    ELSE IF v = Null THEN Num(0)
    ELSE IF IsStr(v) /\ AllDigits(v[2]) THEN Num(DecimalValue(v[2], Len(v[2])))
    ELSE NaN

Times(a, b) == IF IsNum(a) /\ IsNum(b) THEN Num(a[2] * b[2]) ELSE NaN
Plus(a, b) == IF IsNum(a) /\ IsNum(b) THEN Num(a[2] + b[2]) ELSE NaN

\* BigInt(v): [ok |-> TRUE, val |-> n], or ok = FALSE where BigInt throws
BigIntOf(v) ==
    IF IsNum(v) THEN [ok |-> TRUE, val |-> v[2]]
    ELSE IF IsStr(v) /\ AllDigits(v[2])
         THEN [ok |-> TRUE, val |-> DecimalValue(v[2], Len(v[2]))]
    ELSE [ok |-> FALSE, val |-> 0]

RECURSIVE ToDecimal(_)
\* n.toString() of a non-negative bigint
ToDecimal(n) ==
    LET d == CASE n % 10 = 0 -> "0" [] n % 10 = 1 -> "1" [] n % 10 = 2 -> "2"
               [] n % 10 = 3 -> "3" [] n % 10 = 4 -> "4" [] n % 10 = 5 -> "5"
               [] n % 10 = 6 -> "6" [] n % 10 = 7 -> "7" [] n % 10 = 8 -> "8"
               [] n % 10 = 9 -> "9"
    IN IF n < 10 THEN <<d>> ELSE Append(ToDecimal(n \div 10), d)

----------------------------------------------------------------------------
(* Addresses (the SDK's Address class, ethers.ZeroAddress) *)

HexChars == Digits \cup {"a", "b", "c", "d", "e", "f", "A", "B", "C", "D", "E", "F"}

LowerChar(c) ==
    CASE c = "A" -> "a" [] c = "B" -> "b" [] c = "C" -> "c"
      [] c = "D" -> "d" [] c = "E" -> "e" [] c = "F" -> "f" [] OTHER -> c

Lower(s) == [i \in 1..Len(s) |-> LowerChar(s[i])]

AddressOf(c) == <<"0", "x">> \o [i \in 1..AddrHexLen |-> c]

ZeroAddress == AddressOf("0")

\* new Address(v) accepts "0x" followed by the right number of hex digits
IsAddress(v) ==
    /\ IsStr(v)
    /\ Len(v[2]) = 2 + AddrHexLen
    /\ v[2][1] = "0" /\ v[2][2] = "x"
    /\ \A i \in 3..Len(v[2]) : v[2][i] \in HexChars

----------------------------------------------------------------------------
(* State *)

VARIABLES
    env,          \* process.env.CHAIN_ID as the process was started
    orderService, \* the LimitOrderService built at start-up
    now,          \* Math.floor(Date.now() / 1000)
    pc,           \* per request: "idle", "awaiting" (an external call) or "done"
    request,      \* per request: endpoint, body and route parameter
    locals,       \* per request: the order createOrder built, if any
    calls,        \* per request: the external calls made, oldest first
    responses,    \* per request: the responses written to res, oldest first
    allowance,    \* approval helper: the allowance on chain
    job,          \* approval helper: the run in progress
    approvals,    \* approval helper: the approval transactions sent
    runs          \* approval helper: the runs finished

httpVars == <<env, orderService, now, pc, request, locals, calls, responses>>
approvalVars == <<allowance, job, approvals, runs>>
vars == <<env, orderService, now, pc, request, locals, calls, responses,
          allowance, job, approvals, runs>>

----------------------------------------------------------------------------
(* Configuration and construction *)

\* the values CHAIN_ID is started with: unset, "1", "5", "0", "a"
EnvValues == {Undefined, Str(<<"1">>), Str(<<"5">>), Str(<<"0">>), Str(<<"a">>)}

WalletAddress == Str(AddressOf("f"))

config(chainIdEnv) ==
    [rpcUrl |-> "rpcUrl",
     privateKey |-> "privateKey",
     chainId |-> OrElse(ParseInt(chainIdEnv), Num(1)),
     apiKey |-> "apiKey"]

LimitOrderService(cfg) ==
    [provider |-> cfg.rpcUrl,
     wallet |-> [address |-> WalletAddress, privateKey |-> cfg.privateKey],
     chainId |-> cfg.chainId,
     apiKey |-> cfg.apiKey,
     api |-> [networkId |-> cfg.chainId, authKey |-> cfg.apiKey]]

----------------------------------------------------------------------------
(* Requests *)

\* req.body after express.json(): the fields a handler reads are undefined
\* when absent; defined = FALSE is a request whose body was not parsed
Body(d, ma, ta, mk, tk, em, oh, sg) ==
    [defined |-> d, makerAsset |-> ma, takerAsset |-> ta, makingAmount |-> mk,
     takingAmount |-> tk, expirationMinutes |-> em, orderHash |-> oh,
     signature |-> sg]

NoBody == Body(FALSE, Undefined, Undefined, Undefined, Undefined, Undefined,
               Undefined, Undefined)

NoRequest == [endpoint |-> "none", body |-> NoBody, param |-> Undefined]

\* a handler path that returns without writing the response
SendJsonDropped(res, status, body) == res

\* res.status(s).json(b)
SendJson(res, status, body) == Append(res, [status |-> status, body |-> body])

\* an external call and how it ended: "pending", "returned" or "threw"
Call(fn, args) == [fn |-> fn, args |-> args, state |-> "pending"]

Settle(cs, st) == [cs EXCEPT ![Len(cs)].state = st]

\* '0x' + Math.random().toString(16).substr(2, k), for the n-th possible draw
RandomHex(n) == Str(<<"0x", n>>)
Rand == 1..MaxRand

----------------------------------------------------------------------------
(* LimitOrderService.createOrder *)

DefaultExpirationMinutes == 60
SecondsPerMinute == 60

\* const { ..., expirationMinutes = 60 } = orderParams: the default replaces
\* undefined and nothing else
ExpirationMinutesOf(params) ==
    IF params.expirationMinutes = Undefined
    THEN Num(DefaultExpirationMinutes)
    ELSE params.expirationMinutes

\* BigInt(Math.floor(Date.now() / 1000) + (expirationMinutes * 60))
ExpirationTime(params, t) ==
    BigIntOf(Plus(Num(t), Times(ToNumber(ExpirationMinutesOf(params)),
                                Num(SecondsPerMinute))))

\* the hash of an order is derived from its content
OrderHash(order) == Str(<<"orderHash", order>>)

\* wallet.signTypedData over the order's typed data, when it succeeds
Signature(wallet, order) == Str(<<"signature", wallet.address, order>>)

\* lines 29-48: the order, or ok = FALSE when BigInt or new Address throws
BuildOrder(params, t, svc) ==
    LET e == ExpirationTime(params, t)
        mk == BigIntOf(params.makingAmount)
        tk == BigIntOf(params.takingAmount)
        ok == /\ e.ok
              /\ IsAddress(params.makerAsset)
              /\ IsAddress(params.takerAsset)
              /\ mk.ok
              /\ tk.ok
    IN IF ok
       THEN [ok |-> TRUE,
             order |-> <<[maker |-> Lower(svc.wallet.address[2]),
                          makerAsset |-> Lower(params.makerAsset[2]),
                          takerAsset |-> Lower(params.takerAsset[2]),
                          makingAmount |-> mk.val,
                          takingAmount |-> tk.val,
                          expiration |-> e.val]>>]
       ELSE [ok |-> FALSE, order |-> <<>>]

\* lines 55-67
CreateSucceeded(order, signature) ==
    [success |-> TRUE,
     order |-> [hash |-> OrderHash(order),
                maker |-> Str(order.maker),
                makerAsset |-> Str(order.makerAsset),
                takerAsset |-> Str(order.takerAsset),
                makingAmount |-> Str(ToDecimal(order.makingAmount)),
                takingAmount |-> Str(ToDecimal(order.takingAmount))],
     signature |-> signature,
     message |-> "Order created and signed successfully"]

\* lines 69-84: the catch block, with the two Math.random() draws h and s
CreateFallback(params, svc, h, s) ==
    [success |-> TRUE,
     order |-> [hash |-> RandomHex(h),
                maker |-> svc.wallet.address,
                makerAsset |-> params.makerAsset,
                takerAsset |-> params.takerAsset,
                makingAmount |-> params.makingAmount,
                takingAmount |-> params.takingAmount],
     signature |-> RandomHex(s),
     message |-> "Order created successfully (demo mode)"]

----------------------------------------------------------------------------
(* POST /api/orders/create *)

AddrA == Str(AddressOf("A"))
AddrB == Str(AddressOf("b"))
NotAnAddress == Str(<<"z">>)

CreateBodies ==
    {NoBody} \cup
    {Body(TRUE, ma, AddrB, mk, tk, em, Undefined, Undefined) :
        ma \in {Str(<<>>), AddrA, NotAnAddress},
        mk \in {Num(0), Str(<<"1", "0", "0">>)},
        tk \in {Undefined, Num(30)},
        em \in {Undefined, Null, Num(120)}}

\* a check for absent fields only
MissingCreateFieldsAbsentOnly(b) ==
    \/ b.makerAsset = Undefined
    \/ b.takerAsset = Undefined
    \/ b.makingAmount = Undefined
    \/ b.takingAmount = Undefined

\* !makerAsset || !takerAsset || !makingAmount || !takingAmount
MissingCreateFields(b) ==
    \/ Falsy(b.makerAsset)
    \/ Falsy(b.takerAsset)
    \/ Falsy(b.makingAmount)
    \/ Falsy(b.takingAmount)

CreateParams(b) ==
    [makerAsset |-> b.makerAsset, takerAsset |-> b.takerAsset,
     makingAmount |-> b.makingAmount, takingAmount |-> b.takingAmount,
     expirationMinutes |-> b.expirationMinutes]

Failed(message, cause) ==
    [success |-> FALSE, message |-> message, error |-> cause]

PostCreate(r) ==
    /\ pc[r] = "idle"
    /\ \E b \in CreateBodies :
        /\ request' = [request EXCEPT
              ![r] = [endpoint |-> "create", body |-> b, param |-> Undefined]]
        /\ IF ~b.defined
           THEN \* destructuring an undefined body throws: the handler's catch
                /\ responses' = [responses EXCEPT ![r] = SendJson(@, 500,
                      Failed("Failed to create order", "TypeError"))]
                /\ pc' = [pc EXCEPT ![r] = "done"]
                /\ UNCHANGED <<locals, calls>>
           ELSE IF MissingCreateFields(b)
           THEN /\ responses' = [responses EXCEPT ![r] = SendJson(@, 400,
                      [success |-> FALSE,
                       message |-> "Missing required fields: makerAsset, takerAsset, makingAmount, takingAmount"])]
                /\ pc' = [pc EXCEPT ![r] = "done"]
                /\ UNCHANGED <<locals, calls>>
           ELSE LET built == BuildOrder(CreateParams(b), now, orderService) IN
                IF built.ok
                THEN /\ locals' = [locals EXCEPT ![r] = built.order]
                     /\ calls' = [calls EXCEPT ![r] = Append(@,
                           Call("wallet.signTypedData", built.order))]
                     /\ pc' = [pc EXCEPT ![r] = "awaiting"]
                     /\ UNCHANGED responses
                ELSE \E h \in Rand, s \in Rand :
                     /\ responses' = [responses EXCEPT ![r] = SendJson(@, 200,
                           CreateFallback(CreateParams(b), orderService, h, s))]
                     /\ pc' = [pc EXCEPT ![r] = "done"]
                     /\ UNCHANGED <<locals, calls>>
    /\ UNCHANGED <<env, orderService, now, approvalVars>>

\* the awaited wallet.signTypedData returns or throws
CreateSigned(r) ==
    /\ pc[r] = "awaiting"
    /\ request[r].endpoint = "create"
    /\ \/ /\ calls' = [calls EXCEPT ![r] = Settle(@, "returned")]
          /\ responses' = [responses EXCEPT ![r] = SendJson(@, 200,
                CreateSucceeded(locals[r][1],
                                Signature(orderService.wallet, locals[r][1])))]
       \/ /\ calls' = [calls EXCEPT ![r] = Settle(@, "threw")]
          /\ \E h \in Rand, s \in Rand :
                responses' = [responses EXCEPT ![r] = SendJson(@, 200,
                    CreateFallback(CreateParams(request[r].body), orderService,
                                   h, s))]
    /\ pc' = [pc EXCEPT ![r] = "done"]
    /\ UNCHANGED <<env, orderService, now, request, locals, approvalVars>>

----------------------------------------------------------------------------
(* POST /api/orders/submit and LimitOrderService.submitOrder *)

\* what a client can send: what an earlier create response returned, or a
\* string of its own
ClientHash == Str(<<"h">>)
ClientSignature == Str(<<"s">>)

Created(q) ==
    /\ pc[q] = "done"
    /\ request[q].endpoint = "create"
    /\ responses[q][1].status = 200

ReturnedHashes == {responses[q][1].body.order.hash : q \in {x \in Requests : Created(x)}}
ReturnedSignatures == {responses[q][1].body.signature : q \in {x \in Requests : Created(x)}}

SubmitBodies ==
    {NoBody} \cup
    {Body(TRUE, Undefined, Undefined, Undefined, Undefined, Undefined, oh, sg) :
        oh \in {Undefined, ClientHash} \cup ReturnedHashes,
        sg \in {Undefined, ClientSignature} \cup ReturnedSignatures}

\* !orderHash || !signature
MissingSubmitFields(b) == Falsy(b.orderHash) \/ Falsy(b.signature)

\* what the awaited api.submitOrder can resolve to: an object with orderId,
\* an object with id only, or nothing (defined = FALSE)
RemoteSubmitResponses ==
    {[defined |-> TRUE, orderId |-> Str(<<"remoteId", 1>>), id |-> Undefined],
     [defined |-> TRUE, orderId |-> Undefined, id |-> Str(<<"remoteId", 2>>)],
     [defined |-> FALSE, orderId |-> Undefined, id |-> Undefined]}

\* JSON.stringify leaves out a key whose value is undefined
DropUndefined(o, k) ==
    IF o[k] = Undefined THEN [x \in DOMAIN o \ {k} |-> o[x]] ELSE o

\* lines 90-95
SubmitSucceeded(response) ==
    [success |-> TRUE,
     orderId |-> OrElse(response.orderId, response.id),
     message |-> "Order submitted to 1inch network",
     data |-> DropUndefined(DropUndefined(
                 [orderId |-> response.orderId, id |-> response.id],
                 "orderId"), "id")]

\* lines 96-103
SubmitFallback(n) ==
    [success |-> TRUE,
     orderId |-> RandomHex(n),
     message |-> "Order submitted successfully (demo mode)"]

PostSubmit(r) ==
    /\ pc[r] = "idle"
    /\ \E b \in SubmitBodies :
        /\ request' = [request EXCEPT
              ![r] = [endpoint |-> "submit", body |-> b, param |-> Undefined]]
        /\ IF ~b.defined
           THEN /\ responses' = [responses EXCEPT ![r] = SendJson(@, 500,
                      Failed("Failed to submit order", "TypeError"))]
                /\ pc' = [pc EXCEPT ![r] = "done"]
                /\ UNCHANGED calls
           ELSE IF MissingSubmitFields(b)
           THEN /\ responses' = [responses EXCEPT ![r] = SendJson(@, 400,
                      [success |-> FALSE,
                       message |-> "Missing orderHash or signature"])]
                /\ pc' = [pc EXCEPT ![r] = "done"]
                /\ UNCHANGED calls
           ELSE \* orderService.submitOrder(orderHash, signature)
                /\ calls' = [calls EXCEPT ![r] = Append(@,
                      Call("api.submitOrder", <<b.orderHash, b.signature>>))]
                /\ pc' = [pc EXCEPT ![r] = "awaiting"]
                /\ UNCHANGED responses
    /\ UNCHANGED <<env, orderService, now, locals, approvalVars>>

SubmitReturned(r) ==
    /\ pc[r] = "awaiting"
    /\ request[r].endpoint = "submit"
    /\ \/ \E response \in RemoteSubmitResponses :
            /\ calls' = [calls EXCEPT ![r] = Settle(@, "returned")]
            /\ IF response.defined
               THEN responses' = [responses EXCEPT ![r] = SendJson(@, 200,
                        DropUndefined(SubmitSucceeded(response), "orderId"))]
               ELSE \* response.orderId throws inside the try block
                    \E n \in Rand :
                        responses' = [responses EXCEPT ![r] =
                            SendJson(@, 200, SubmitFallback(n))]
       \/ /\ calls' = [calls EXCEPT ![r] = Settle(@, "threw")]
          /\ \E n \in Rand :
                responses' = [responses EXCEPT ![r] =
                    SendJson(@, 200, SubmitFallback(n))]
    /\ pc' = [pc EXCEPT ![r] = "done"]
    /\ UNCHANGED <<env, orderService, now, request, locals, approvalVars>>

----------------------------------------------------------------------------
(* GET /api/orders/active and LimitOrderService.getActiveOrders *)

RemoteOrderLists ==
    {<<>>, <<[orderHash |-> Str(<<"remoteHash", 1>>), status |-> "ACTIVE"]>>}

\* lines 113-118
ActiveSucceeded(orders) ==
    [success |-> TRUE,
     count |-> Len(orders),
     orders |-> orders,
     message |-> <<"Found", Len(orders), "active orders">>]

\* lines 119-139
ActiveFallback(h1, h2, t) ==
    LET fakeOrders ==
          <<[orderHash |-> RandomHex(h1), status |-> "ACTIVE", createdAt |-> t],
            [orderHash |-> RandomHex(h2), status |-> "ACTIVE", createdAt |-> t]>>
    IN [success |-> TRUE,
        count |-> Len(fakeOrders),
        orders |-> fakeOrders,
        message |-> <<"Found", Len(fakeOrders), "active orders (demo mode)">>]

GetActive(r) ==
    /\ pc[r] = "idle"
    /\ request' = [request EXCEPT
          ![r] = [endpoint |-> "active", body |-> NoBody, param |-> Undefined]]
    /\ calls' = [calls EXCEPT ![r] = Append(@,
          Call("api.getActiveOrders",
               <<1, 100, orderService.wallet.address>>))]
    /\ pc' = [pc EXCEPT ![r] = "awaiting"]
    /\ UNCHANGED <<env, orderService, now, locals, responses, approvalVars>>

ActiveReturned(r) ==
    /\ pc[r] = "awaiting"
    /\ request[r].endpoint = "active"
    /\ \/ \E orders \in RemoteOrderLists :
            /\ calls' = [calls EXCEPT ![r] = Settle(@, "returned")]
            /\ responses' = [responses EXCEPT ![r] =
                  SendJson(@, 200, ActiveSucceeded(orders))]
       \/ /\ calls' = [calls EXCEPT ![r] = Settle(@, "threw")]
          /\ \E h1 \in Rand, h2 \in Rand :
                responses' = [responses EXCEPT ![r] =
                    SendJson(@, 200, ActiveFallback(h1, h2, now))]
    /\ pc' = [pc EXCEPT ![r] = "done"]
    /\ UNCHANGED <<env, orderService, now, request, locals, approvalVars>>

----------------------------------------------------------------------------
(* GET /api/orders/:orderHash/status and LimitOrderService.getOrderStatus *)

PathHashes == {ClientHash}

RemoteStatuses == {Str(<<"remoteStatus", "filled">>)}

\* lines 145-150
StatusSucceeded(orderHash, status) ==
    [success |-> TRUE,
     orderHash |-> orderHash,
     status |-> status,
     message |-> "Order status retrieved"]

\* lines 151-163
StatusFallback(orderHash) ==
    [success |-> TRUE,
     orderHash |-> orderHash,
     status |-> [status |-> "ACTIVE", filled |-> "0%", remaining |-> "100%"],
     message |-> "Order status retrieved (demo mode)"]

GetStatus(r) ==
    /\ pc[r] = "idle"
    /\ \E h \in PathHashes :
        /\ request' = [request EXCEPT
              ![r] = [endpoint |-> "status", body |-> NoBody, param |-> h]]
        /\ calls' = [calls EXCEPT ![r] = Append(@,
              Call("api.getOrderStatus", <<h>>))]
    /\ pc' = [pc EXCEPT ![r] = "awaiting"]
    /\ UNCHANGED <<env, orderService, now, locals, responses, approvalVars>>

StatusReturned(r) ==
    /\ pc[r] = "awaiting"
    /\ request[r].endpoint = "status"
    /\ \/ \E status \in RemoteStatuses :
            /\ calls' = [calls EXCEPT ![r] = Settle(@, "returned")]
            /\ responses' = [responses EXCEPT ![r] = SendJson(@, 200,
                  StatusSucceeded(request[r].param, status))]
       \/ /\ calls' = [calls EXCEPT ![r] = Settle(@, "threw")]
          /\ responses' = [responses EXCEPT ![r] = SendJson(@, 200,
                StatusFallback(request[r].param))]
    /\ pc' = [pc EXCEPT ![r] = "done"]
    /\ UNCHANGED <<env, orderService, now, request, locals, approvalVars>>

----------------------------------------------------------------------------
(* DELETE /api/orders/:orderHash and LimitOrderService.cancelOrder *)

\* the awaited api.cancelOrder resolves to nothing or to a result
RemoteCancelResults == {Undefined, Str(<<"remoteResult", "canceled">>)}

\* lines 169-174
CancelSucceeded(orderHash, result) ==
    [success |-> TRUE,
     orderHash |-> orderHash,
     message |-> "Order canceled successfully",
     data |-> result]

\* lines 175-182
CancelFallback(orderHash) ==
    [success |-> TRUE,
     orderHash |-> orderHash,
     message |-> "Order canceled successfully (demo mode)"]

DeleteOrder(r) ==
    /\ pc[r] = "idle"
    /\ \E h \in PathHashes :
        /\ request' = [request EXCEPT
              ![r] = [endpoint |-> "cancel", body |-> NoBody, param |-> h]]
        /\ calls' = [calls EXCEPT ![r] = Append(@,
              Call("api.cancelOrder", <<h>>))]
    /\ pc' = [pc EXCEPT ![r] = "awaiting"]
    /\ UNCHANGED <<env, orderService, now, locals, responses, approvalVars>>

CancelReturned(r) ==
    /\ pc[r] = "awaiting"
    /\ request[r].endpoint = "cancel"
    /\ \/ \E result \in RemoteCancelResults :
            /\ calls' = [calls EXCEPT ![r] = Settle(@, "returned")]
            /\ responses' = [responses EXCEPT ![r] = SendJson(@, 200,
                  DropUndefined(CancelSucceeded(request[r].param, result),
                                "data"))]
       \/ /\ calls' = [calls EXCEPT ![r] = Settle(@, "threw")]
          /\ responses' = [responses EXCEPT ![r] = SendJson(@, 200,
                CancelFallback(request[r].param))]
    /\ pc' = [pc EXCEPT ![r] = "done"]
    /\ UNCHANGED <<env, orderService, now, request, locals, approvalVars>>

----------------------------------------------------------------------------
(* GET /api/balance/:tokenAddress and LimitOrderService.getTokenBalance *)

EtherDecimals == 18

\* what the chain can answer, in wei
RpcBalances == {0, 1500}

PathTokens == {Str(ZeroAddress), AddrA}

RECURSIVE StripTrailingZeros(_)
StripTrailingZeros(s) ==
    IF Len(s) > 1 /\ s[Len(s)] = "0"
    THEN StripTrailingZeros(SubSeq(s, 1, Len(s) - 1))
    ELSE s

PadLeft(s, n) ==
    IF Len(s) >= n THEN s ELSE [i \in 1..(n - Len(s)) |-> "0"] \o s

\* ethers.formatEther: the value over 10^18 as a decimal string, with at
\* least one digit on each side of the point
FormatEther(b) ==
    LET d == PadLeft(ToDecimal(b), EtherDecimals + 1)
        whole == SubSeq(d, 1, Len(d) - EtherDecimals)
        frac == SubSeq(d, Len(d) - EtherDecimals + 1, Len(d))
    IN whole \o <<".">> \o StripTrailingZeros(frac)

\* lines 198-203
BalanceSucceeded(balance) ==
    [success |-> TRUE,
     balance |-> Str(ToDecimal(balance)),
     formatted |-> Str(FormatEther(balance)),
     message |-> "Balance retrieved"]

\* lines 204-212: '1000000000000000000000' and '1000.0'
BalanceFallback ==
    [success |-> TRUE,
     balance |-> Str(<<"1">> \o [i \in 1..(EtherDecimals + 3) |-> "0"]),
     formatted |-> Str(<<"1", "0", "0", "0", ".", "0">>),
     message |-> "Balance retrieved (demo mode)"]

GetBalance(r) ==
    /\ pc[r] = "idle"
    /\ \E tokenAddress \in PathTokens :
        /\ request' = [request EXCEPT
              ![r] = [endpoint |-> "balance", body |-> NoBody,
                      param |-> tokenAddress]]
        /\ calls' = [calls EXCEPT ![r] = Append(@,
              IF tokenAddress = Str(ZeroAddress)
              THEN Call("provider.getBalance", <<orderService.wallet.address>>)
              ELSE Call("tokenContract.balanceOf",
                        <<tokenAddress, orderService.wallet.address>>))]
    /\ pc' = [pc EXCEPT ![r] = "awaiting"]
    /\ UNCHANGED <<env, orderService, now, locals, responses, approvalVars>>

BalanceReturned(r) ==
    /\ pc[r] = "awaiting"
    /\ request[r].endpoint = "balance"
    /\ \/ \E balance \in RpcBalances :
            /\ calls' = [calls EXCEPT ![r] = Settle(@, "returned")]
            /\ responses' = [responses EXCEPT ![r] =
                  SendJson(@, 200, BalanceSucceeded(balance))]
       \/ /\ calls' = [calls EXCEPT ![r] = Settle(@, "threw")]
          /\ responses' = [responses EXCEPT ![r] =
                SendJson(@, 200, BalanceFallback)]
    /\ pc' = [pc EXCEPT ![r] = "done"]
    /\ UNCHANGED <<env, orderService, now, request, locals, approvalVars>>

----------------------------------------------------------------------------
(* GET /api/health *)

GetHealth(r) ==
    /\ pc[r] = "idle"
    /\ request' = [request EXCEPT
          ![r] = [endpoint |-> "health", body |-> NoBody, param |-> Undefined]]
    /\ responses' = [responses EXCEPT ![r] = SendJson(@, 200,
          [success |-> TRUE,
           message |-> "1inch Limit Order API is running",
           wallet |-> orderService.wallet.address,
           chainId |-> orderService.chainId])]
    /\ pc' = [pc EXCEPT ![r] = "done"]
    /\ UNCHANGED <<env, orderService, now, locals, calls, approvalVars>>

----------------------------------------------------------------------------
(* GET /api/tokens *)

EmptyObject == <<>>

\* the table of lines 352-360: chain 1 only
EthereumTokens ==
    [ETH |-> Str(ZeroAddress),
     WETH |-> Str(AddressOf("C")),
     USDT |-> Str(AddressOf("d")),
     USDC |-> Str(AddressOf("A")),
     DAI |-> Str(AddressOf("6"))]

\* tokens[orderService.chainId] || {}
TokensOf(chainId) == IF chainId = Num(1) THEN EthereumTokens ELSE EmptyObject

\* a handler that stores the default chain when the table has no entry
GetTokensStoringDefault(r) ==
    /\ pc[r] = "idle"
    /\ request' = [request EXCEPT
          ![r] = [endpoint |-> "tokens", body |-> NoBody, param |-> Undefined]]
    /\ orderService' = [orderService EXCEPT
          !.chainId = IF @ = Num(1) THEN @ ELSE Num(1)]
    /\ responses' = [responses EXCEPT ![r] = SendJson(@, 200,
          [success |-> TRUE,
           tokens |-> TokensOf(orderService'.chainId),
           chainId |-> orderService'.chainId])]
    /\ pc' = [pc EXCEPT ![r] = "done"]
    /\ UNCHANGED <<env, now, locals, calls, approvalVars>>

GetTokens(r) ==
    /\ pc[r] = "idle"
    /\ request' = [request EXCEPT
          ![r] = [endpoint |-> "tokens", body |-> NoBody, param |-> Undefined]]
    /\ responses' = [responses EXCEPT ![r] = SendJson(@, 200,
          [success |-> TRUE,
           tokens |-> TokensOf(orderService.chainId),
           chainId |-> orderService.chainId])]
    /\ pc' = [pc EXCEPT ![r] = "done"]
    /\ UNCHANGED <<env, orderService, now, locals, calls, approvalVars>>

----------------------------------------------------------------------------
(* The balance and approval helper of the standalone script                *)
(* (section 4.3 of the specification; its code is not part of src/)        *)

Amounts == 0..MaxAmount

\* an approval also when the allowance equals the amount
ApprovalNeededOrEqual(currentAllowance, requestedAmount) ==
    currentAllowance <= requestedAmount

\* an approval is needed when the allowance is insufficient for the spend
ApprovalNeeded(currentAllowance, requestedAmount) ==
    currentAllowance < requestedAmount

\* the helper is called for an intended spend and reads the allowance
ApprovalStart ==
    /\ job = <<>>
    /\ runs < MaxRuns
    /\ \E amount \in Amounts :
          job' = <<[requestedAmount |-> amount, currentAllowance |-> allowance]>>
    /\ UNCHANGED <<allowance, approvals, runs, httpVars>>

\* it sends the approval transaction, or skips it, and returns
ApprovalDecide ==
    /\ job # <<>>
    /\ LET j == job[1] IN
       IF ApprovalNeeded(j.currentAllowance, j.requestedAmount)
       THEN /\ approvals' = Append(approvals, j)
            /\ allowance' = j.requestedAmount
       ELSE UNCHANGED <<approvals, allowance>>
    /\ runs' = runs + 1
    /\ job' = <<>>
    /\ UNCHANGED httpVars

\* the spender draws on the allowance
AllowanceSpent ==
    /\ allowance > 0
    /\ allowance' = allowance - 1
    /\ UNCHANGED <<job, approvals, runs, httpVars>>

----------------------------------------------------------------------------
(* The clock *)

Tick ==
    /\ now < MaxTime
    /\ now' = now + 1
    /\ UNCHANGED <<env, orderService, pc, request, locals, calls, responses,
                   approvalVars>>

----------------------------------------------------------------------------

Init ==
    /\ env \in EnvValues
    /\ orderService = LimitOrderService(config(env))
    /\ now = 0
    /\ pc = [r \in Requests |-> "idle"]
    /\ request = [r \in Requests |-> NoRequest]
    /\ locals = [r \in Requests |-> <<>>]
    /\ calls = [r \in Requests |-> <<>>]
    /\ responses = [r \in Requests |-> <<>>]
    /\ allowance = 0
    /\ job = <<>>
    /\ approvals = <<>>
    /\ runs = 0

Next ==
    \/ Tick
    \/ \E r \in Requests : PostCreate(r)
    \/ \E r \in Requests : CreateSigned(r)
    \/ \E r \in Requests : PostSubmit(r)
    \/ \E r \in Requests : SubmitReturned(r)
    \/ \E r \in Requests : GetActive(r)
    \/ \E r \in Requests : ActiveReturned(r)
    \/ \E r \in Requests : GetStatus(r)
    \/ \E r \in Requests : StatusReturned(r)
    \/ \E r \in Requests : DeleteOrder(r)
    \/ \E r \in Requests : CancelReturned(r)
    \/ \E r \in Requests : GetBalance(r)
    \/ \E r \in Requests : BalanceReturned(r)
    \/ \E r \in Requests : GetHealth(r)
    \/ \E r \in Requests : GetTokens(r)

Spec == Init /\ [][Next]_vars

\* the helper on its own
NextApproval == ApprovalStart \/ ApprovalDecide \/ AllowanceSpent

SpecApproval == Init /\ [][NextApproval]_vars

----------------------------------------------------------------------------
(* Properties *)

Done(r) == pc[r] = "done"
Response(r) == responses[r][1]
LastCall(r) == calls[r][Len(calls[r])]
CallThrew(r) == calls[r] # <<>> /\ LastCall(r).state = "threw"

\* C1: whenever the external call of a service operation (signing, remote
\* API, RPC) fails, the result returned to the caller is an error outcome:
\* it does not have success = true.
C1_FailureSurfacesError ==
    \A r \in Requests :
        (Done(r) /\ CallThrew(r)) => Response(r).body.success = FALSE

\* C2: a CHAIN_ID that was supplied but is not the numeral of a recognised
\* chain is never replaced by a default chain: GET /api/tokens then returns an
\* empty token mapping.
RecognisedChains == {1}

SuppliedChainRecognised ==
    /\ IsStr(env)
    /\ env[2] # <<>>
    /\ AllDigits(env[2])
    /\ DecimalValue(env[2], Len(env[2])) \in RecognisedChains

C2_TokensFollowConfiguredChain ==
    \A r \in Requests :
        (Done(r) /\ request[r].endpoint = "tokens"
            /\ env # Undefined /\ ~SuppliedChainRecognised)
        => DOMAIN Response(r).body.tokens = {}

\* C3: a run of the approval helper sends an approval transaction if and only
\* if the allowance it read is strictly less than the requested amount; an
\* equal allowance sends none.
C3_ApprovalIffInsufficient ==
    [][(job # <<>> /\ job' = <<>>) =>
          ((Len(approvals') = Len(approvals) + 1)
             <=> (job[1].currentAllowance < job[1].requestedAmount))]_vars

\* a run that sent an approval and a run with allowance = amount that sent none
C3_Witness ==
    /\ approvals # <<>>
    /\ runs > Len(approvals)

\* C4: two createOrder calls that built the same order (same assets, amounts,
\* expiration, wallet) return the same order hash.
C4_HashDeterministic ==
    \A r1, r2 \in Requests :
        (/\ Created(r1) /\ Created(r2)
         /\ locals[r1] # <<>> /\ locals[r1] = locals[r2]
         /\ CreateParams(request[r1].body) = CreateParams(request[r2].body))
        => Response(r1).body.order.hash = Response(r2).body.order.hash

\* C5 as stated, for the requests whose body was parsed: create answers 400
\* exactly when one of its four fields is absent from the body, submit exactly
\* when orderHash or signature is absent, whatever the values of the fields
\* present.
Absent(v) == v = Undefined

C5_Original ==
    \A r \in Requests :
        /\ (Done(r) /\ request[r].endpoint = "create" /\ request[r].body.defined) =>
              ((Response(r).status = 400) <=>
                 (\/ Absent(request[r].body.makerAsset)
                  \/ Absent(request[r].body.takerAsset)
                  \/ Absent(request[r].body.makingAmount)
                  \/ Absent(request[r].body.takingAmount)))
        /\ (Done(r) /\ request[r].endpoint = "submit" /\ request[r].body.defined) =>
              ((Response(r).status = 400) <=>
                 (\/ Absent(request[r].body.orderHash)
                  \/ Absent(request[r].body.signature)))

\* C5 as amended: create answers 400 with success = false, and without any
\* external call, exactly when the request has a parsed body in which one of
\* makerAsset, takerAsset, makingAmount, takingAmount is absent or falsy (null,
\* 0, NaN, the empty string); submit likewise for orderHash and signature. A
\* request without a parsed body is answered 500.
AbsentOrFalsy(v) ==
    v \in {<<"undefined">>, <<"null">>, <<"NaN">>, <<"number", 0>>,
           <<"string", <<>>>>}

C5_Amended ==
    \A r \in Requests :
        /\ (pc[r] # "idle" /\ request[r].endpoint = "create") =>
              LET b == request[r].body
                  rejected == /\ b.defined
                              /\ \/ AbsentOrFalsy(b.makerAsset)
                                 \/ AbsentOrFalsy(b.takerAsset)
                                 \/ AbsentOrFalsy(b.makingAmount)
                                 \/ AbsentOrFalsy(b.takingAmount)
              IN /\ rejected => /\ Done(r)
                                /\ Response(r).status = 400
                                /\ Response(r).body.success = FALSE
                                /\ calls[r] = <<>>
                                /\ locals[r] = <<>>
                 /\ (Done(r) /\ Response(r).status = 400) => rejected
                 /\ ~b.defined => (Done(r) /\ Response(r).status = 500)
        /\ (pc[r] # "idle" /\ request[r].endpoint = "submit") =>
              LET b == request[r].body
                  rejected == /\ b.defined
                              /\ \/ AbsentOrFalsy(b.orderHash)
                                 \/ AbsentOrFalsy(b.signature)
              IN /\ rejected => /\ Done(r)
                                /\ Response(r).status = 400
                                /\ Response(r).body.success = FALSE
                                /\ calls[r] = <<>>
                 /\ (Done(r) /\ Response(r).status = 400) => rejected
                 /\ ~b.defined => (Done(r) /\ Response(r).status = 500)

\* a create request with every field present, rejected for a making amount
\* of 0, and a create request with the same assets that was accepted
C5_Witness ==
    \E r1, r2 \in Requests :
        /\ Done(r1) /\ request[r1].endpoint = "create"
        /\ request[r1].body.makerAsset = AddrA
        /\ request[r1].body.makingAmount = Num(0)
        /\ request[r1].body.takingAmount = Num(30)
        /\ Response(r1).status = 400
        /\ Done(r2) /\ request[r2].endpoint = "create"
        /\ request[r2].body.makerAsset = AddrA
        /\ Response(r2).status = 200

\* C6: every response of every endpoint, on every path, is a JSON envelope
\* with both a success field and a message field.
C6_EnvelopeHasSuccessAndMessage ==
    \A r \in Requests :
        \A i \in 1..Len(responses[r]) :
            {"success", "message"} \subseteq DOMAIN responses[r][i].body

\* C7: what submit forwards to the remote API is the signed order itself
\* (an order object, not a string), and the orderId it answers with is the
\* identifier the remote service assigned.
RemoteIds == {Str(<<"remoteId", 1>>), Str(<<"remoteId", 2>>)}

IsOrderObject(v) == v[1] = "object"

C7_SubmitForwardsSignedOrder ==
    \A r \in Requests :
        (request[r].endpoint = "submit" /\ calls[r] # <<>>) =>
            /\ IsOrderObject(calls[r][1].args[1])
            /\ Done(r) => Response(r).body.orderId \in RemoteIds

\* C8: the order createOrder builds at time t expires at t + 60 * minutes
\* when the caller gives an expiration window, and at t + 3600 when the
\* field is absent or null.
C8_ExpirationDefault ==
    [][\A r \in Requests :
          (pc[r] = "idle" /\ request'[r].endpoint = "create"
              /\ locals'[r] # <<>>)
          => LET em == request'[r].body.expirationMinutes IN
             locals'[r][1].expiration =
                IF em \in {Undefined, Null}
                THEN now + 3600
                ELSE now + 60 * em[2]]_vars

\* the endpoints whose handler awaits an external call, and so has a step
\* that takes it on when the call returns or throws
AwaitingEndpoints == {"create", "submit", "active", "status", "cancel", "balance"}

\* C9: every request gets exactly one response, with status 200, 400 or 500:
\* none before its handler has finished, one from then on, never two, and none
\* after the early return of the 400 path. A handler has at most one external
\* call outstanding, every earlier one has completed, and a handler waiting
\* for its call can always go on when the call returns or throws, which ends
\* it with its one response.
C9_ExactlyOneResponse ==
    \A r \in Requests :
        /\ pc[r] \in {"idle", "awaiting", "done"}
        /\ Len(responses[r]) <= 1
        /\ Done(r) <=> Len(responses[r]) = 1
        /\ \A i \in 1..Len(responses[r]) :
              responses[r][i].status \in {200, 400, 500}
        /\ \A i \in 1..Len(calls[r]) :
              (calls[r][i].state = "pending") => (i = Len(calls[r]))
        /\ (pc[r] = "awaiting") <=>
              (calls[r] # <<>> /\ LastCall(r).state = "pending")
        /\ (pc[r] = "awaiting") =>
              /\ request[r].endpoint \in AwaitingEndpoints
              /\ (request[r].endpoint = "create") => locals[r] # <<>>
        /\ (pc[r] = "idle") => calls[r] = <<>>
        /\ (Done(r) /\ Response(r).status = 400) => calls[r] = <<>>

\* two requests in flight at once, and later both answered
C9_Witness ==
    \E r1, r2 \in Requests :
        /\ r1 # r2
        /\ Done(r1) /\ calls[r1] # <<>>
        /\ Done(r2) /\ Response(r2).status = 400

====
